---- MODULE Spec2Model ----
(***************************************************************************)
(* Model of preprocessor.py (Boston-RAZE): process_demolition_data turns a *)
(* table of building records into the nested report of the dashboard.      *)
(*                                                                         *)
(* Conventions of the model                                                *)
(*   - a nullable cell is a sequence: NA == <<>> is pandas' None/NaN/NaT,   *)
(*     <<v>> is the value v;                                               *)
(*   - a raw numeric or date cell is <<"num", v>> / <<"date", y>> when it   *)
(*     parses, <<"text">> when it is an unparseable string, NA when absent; *)
(*   - a character string on which the code computes (strip, upper) is a   *)
(*     sequence of one-character strings;                                  *)
(*   - a table is a sequence of rows (records); a python dict is a TLA+    *)
(*     function; a python list is a sequence;                              *)
(*   - a mean is the exact pair <<sum, n>> (the rational sum/n).            *)
(***************************************************************************)
EXTENDS Integers, Sequences, FiniteSets, TLC

VARIABLES pc, input, gdf, initial_ma_count, all_buildings_df, df, result

vars == <<pc, input, gdf, initial_ma_count, all_buildings_df, df, result>>

\* Largest number of rows of the input table.
MaxRecords == 2

\* Largest length of a series handed to make_hist on its own.
MaxSeries == 3

-----------------------------------------------------------------------------
(* Nullable cells and NaN-aware arithmetic (pandas / numpy semantics).     *)

NA == <<>>

Some(v) == <<v>>

isna(c) == c = NA

notna(c) == c # NA

\* a - b on float columns: NaN when either side is NaN.
Minus(a, b) == IF isna(a) \/ isna(b) THEN NA ELSE Some(a[1] - b[1])

\* comparisons of a column cell with a number: False on NaN.
LtNum(c, n) == notna(c) /\ c[1] < n

GeNum(c, n) == notna(c) /\ c[1] >= n

GtNum(c, n) == notna(c) /\ c[1] > n

EqNum(c, n) == notna(c) /\ c[1] = n

\* pd.to_numeric(col, errors='coerce'): an unparseable or absent cell is NaN.
to_numeric(c) == IF Len(c) = 2 /\ c[1] = "num" THEN Some(c[2]) ELSE NA

\* pd.to_datetime(col, errors='coerce') followed by .dt.year.
to_datetime_year(c) == IF Len(c) = 2 /\ c[1] = "date" THEN Some(c[2]) ELSE NA

fillna(c, v) == IF isna(c) THEN Some(v) ELSE c

-----------------------------------------------------------------------------
(* Strings: str.upper and str.strip, character by character.               *)

LowerCase == <<"a","b","c","d","e","f","g","h","i","j","k","l","m",
               "n","o","p","q","r","s","t","u","v","w","x","y","z">>

UpperCase == <<"A","B","C","D","E","F","G","H","I","J","K","L","M",
               "N","O","P","Q","R","S","T","U","V","W","X","Y","Z">>

UpperChar(ch) ==
    IF \E i \in 1..26 : LowerCase[i] = ch
    THEN UpperCase[CHOOSE i \in 1..26 : LowerCase[i] = ch]
    ELSE ch

upper(s) == [i \in 1..Len(s) |-> UpperChar(s[i])]

IsSpace(ch) == ch \in {" ", "\t", "\n"}

RECURSIVE lstrip(_)
lstrip(s) == IF s # <<>> /\ IsSpace(Head(s)) THEN lstrip(Tail(s)) ELSE s

RECURSIVE rstrip(_)
rstrip(s) ==
    IF s # <<>> /\ IsSpace(s[Len(s)]) THEN rstrip(SubSeq(s, 1, Len(s) - 1)) ELSE s

strip(s) == rstrip(lstrip(s))

\* str(val) of a nullable string cell (astype(str) turns None into "None").
str(c) == IF isna(c) THEN <<"N","o","n","e">> ELSE c[1]

-----------------------------------------------------------------------------
(* Tables.                                                                 *)

Range(s) == {s[i] : i \in 1..Len(s)}

RECURSIVE SumSeq(_)
SumSeq(s) == IF s = <<>> THEN 0 ELSE Head(s) + SumSeq(Tail(s))

\* df[mask] is SelectSeq(rows, mask): the rows satisfying the mask, in order.

Column(rows, f) == [i \in 1..Len(rows) |-> rows[i][f]]

\* series.unique(): the distinct values in order of first appearance.
RECURSIVE unique(_)
unique(s) ==
    IF s = <<>> THEN <<>>
    ELSE LET init == unique(SubSeq(s, 1, Len(s) - 1))
             last == s[Len(s)]
         IN  IF last \in Range(init) THEN init ELSE Append(init, last)

dropna(s) == SelectSeq(s, notna)

\* the values of the non-NaN cells of a numeric column.
Values(s) == [i \in 1..Len(dropna(s)) |-> dropna(s)[i][1]]

Max(S) == CHOOSE m \in S : \A x \in S : x <= m

Min(S) == CHOOSE m \in S : \A x \in S : m <= x

\* series.mean() as the exact pair <<sum, n>>; NaN cells are skipped.
mean(s) == <<SumSeq(Values(s)), Len(Values(s))>>

\* range(lo, hi, step) as a sequence.
range(lo, hi, step) ==
    IF hi <= lo THEN <<>>
    ELSE [k \in 1..((hi - lo + step - 1) \div step) |-> lo + (k - 1) * step]

-----------------------------------------------------------------------------
(* Program constants.                                                      *)

CURRENT_YEAR == 2025

LifespanCeiling == 500

HeatmapCeiling == 200

OverflowFrom == 150

bin_sizes == <<10, 20, 25, 30, 50>>

demo_types == <<"RAZE", "EXTDEM", "INTDEM">>

boston_cities ==
    { <<"B","O","S","T","O","N">>,
      <<"C","A","M","B","R","I","D","G","E">>,
      <<"S","O","M","E","R","V","I","L","L","E">>,
      <<"B","R","O","O","K","L","I","N","E">>,
      <<"Q","U","I","N","C","Y">>,
      <<"N","E","W","T","O","N">>,
      <<"W","A","T","E","R","T","O","W","N">>,
      <<"C","H","E","L","S","E","A">>,
      <<"R","E","V","E","R","E">>,
      <<"E","V","E","R","E","T","T">> }

Unknown == <<"U","n","k","n","o","w","n">>

-----------------------------------------------------------------------------
(* The inputs: the building table (GPKG) and the zoning polygons (GeoJSON). *)

\* The zoning file: axis-aligned polygons in provider order.  The first two
\* overlap on 2 < x < 4.
ZoningFile ==
    << [xmin |-> 0, xmax |-> 4, ymin |-> 0, ymax |-> 2,
        Zoning_District |-> Some("Allston"), Zoning_Subdistrict |-> Some("A-1")],
       [xmin |-> 2, xmax |-> 6, ymin |-> 0, ymax |-> 2,
        Zoning_District |-> Some("Back Bay"), Zoning_Subdistrict |-> NA] >>

\* A typical record: a brick building of Boston, built 1990, razed 2010.
BaseRecord ==
    [ PROP_CITY          |-> Some(<<"B","o","s","t","o","n">>),
      year_built         |-> <<"num", 1990>>,
      DEMOLITION_DATE    |-> <<"date", 2010>>,
      DEMOLITION_TYPE    |-> Some("RAZE"),
      DEMOLITION_STATUS  |-> Some(<<"C","l","o","s","e","d">>),
      material_type_desc |-> Some(<<"B","r","i","c","k">>),
      foundation_type    |-> Some("Stone"),
      Est_GFA            |-> <<"num", 100>>,
      geometry           |-> Some(<<1, 1>>) ]

CityValues == { Some(<<"W","o","r","c","e","s","t","e","r">>) }

\* lifespans against a demolition in 2010: NaN, NaN, 610, 210, 160, 0, -10.
YearBuiltValues ==
    { NA, <<"text">>, <<"num", 1400>>, <<"num", 1800>>, <<"num", 1850>>,
      <<"num", 2010>>, <<"num", 2020>> }

DateValues == { NA, <<"text">>, <<"date", 2015>> }

TypeValues == { Some("EXTDEM"), Some("INTDEM"), NA }

StatusValues ==
    { NA,
      Some(<<" ","c","l","o","s","e"," ">>),
      Some(<<"O","p","e","n">>),
      Some(<<"c","l","o","s","e","s">>) }

MaterialValues ==
    { NA, Some(<<" ","B","r","i","c","k">>), Some(<<"W","o","o","d">>) }

GfaValues == { <<"text">> }

\* in both polygons, in the second only, outside every polygon, no geometry.
GeometryValues == { Some(<<3, 1>>), Some(<<5, 1>>), Some(<<9, 9>>), NA }

\* The records of the input: the typical record with one field changed.
Records ==
    {BaseRecord}
    \cup {[BaseRecord EXCEPT !.PROP_CITY = v] : v \in CityValues}
    \cup {[BaseRecord EXCEPT !.year_built = v] : v \in YearBuiltValues}
    \cup {[BaseRecord EXCEPT !.DEMOLITION_DATE = v] : v \in DateValues}
    \cup {[BaseRecord EXCEPT !.DEMOLITION_TYPE = v] : v \in TypeValues}
    \cup {[BaseRecord EXCEPT !.DEMOLITION_STATUS = v] : v \in StatusValues}
    \cup {[BaseRecord EXCEPT !.material_type_desc = v] : v \in MaterialValues}
    \cup {[BaseRecord EXCEPT !.Est_GFA = v] : v \in GfaValues}
    \cup {[BaseRecord EXCEPT !.geometry = v] : v \in GeometryValues}

\* The optional columns a table may lack (at most one is missing).
OptionalColumns == {"material_type_desc", "Est_GFA", "DEMOLITION_STATUS"}

AllColumns == OptionalColumns \cup {"foundation_type"}

ColumnSets == {AllColumns} \cup {AllColumns \ {c} : c \in OptionalColumns}

\* a missing column holds nothing.
Blank(r, columns) ==
    [f \in DOMAIN r |->
        IF f \in OptionalColumns /\ f \notin columns THEN NA ELSE r[f]]

Tables(Rs) == UNION {[1..n -> Rs] : n \in 0..MaxRecords}

None == [rows |-> <<>>, columns |-> {}]

NoResult == [kind |-> "none"]

\* The records that differ in what decides the inventory and the demolished
\* view: city, year built, demolition date and type, material, position.
InventoryRecords ==
    {r \in Records :
        /\ r.DEMOLITION_STATUS = BaseRecord.DEMOLITION_STATUS
        /\ r.Est_GFA = BaseRecord.Est_GFA
        /\ r.year_built # NA
        /\ r.DEMOLITION_DATE # <<"text">>
        /\ r.material_type_desc # NA}

\* The series and bin widths handed to make_hist on its own.
SeriesValues == {NA, Some(-10), Some(0), Some(9), Some(10), Some(25), Some(499),
                 Some(500), Some(610)}

WidthValues == {7, 10, 25}

Series == UNION {[1..n -> SeriesValues] : n \in 0..MaxSeries}

TypeOK ==
    /\ pc \in {"start", "loaded", "joined", "cleaned", "returned", "load_error",
               "raised", "hist", "hist_done"}
    /\ initial_ma_count \in Nat

InitWith(Rs, Cs) ==
    /\ pc = "start"
    /\ \E rows \in Tables(Rs), columns \in Cs :
          input = [rows    |-> [i \in DOMAIN rows |-> Blank(rows[i], columns)],
                   columns |-> columns]
    /\ gdf = None
    /\ initial_ma_count = 0
    /\ all_buildings_df = None
    /\ df = None
    /\ result = NoResult

Init == InitWith(Records, ColumnSets)

InitInventory == InitWith(InventoryRecords, {AllColumns})

\* make_hist on its own: the input is a series and a bin width.
InitHist ==
    /\ pc = "hist"
    /\ \E series \in Series, width \in WidthValues :
          input = [series |-> series, width |-> width]
    /\ gdf = None
    /\ initial_ma_count = 0
    /\ all_buildings_df = None
    /\ df = None
    /\ result = NoResult

-----------------------------------------------------------------------------
(* 1. Load the building table.                                             *)

\* pyogrio.read_dataframe succeeds: gdf is the table of the file.
LoadData ==
    /\ pc = "start"
    /\ gdf' = input
    /\ pc' = "loaded"
    /\ UNCHANGED <<input, initial_ma_count, all_buildings_df, df, result>>

\* pyogrio.read_dataframe raises: the function returns None.
LoadError ==
    /\ pc = "start"
    /\ pc' = "load_error"
    /\ UNCHANGED <<input, gdf, initial_ma_count, all_buildings_df, df, result>>

-----------------------------------------------------------------------------
(* 3. Spatial join with the zoning polygons.                               *)

\* predicate='within': the point lies in the interior of the polygon.
within(g, poly) ==
    /\ notna(g)
    /\ poly.xmin < g[1][1] /\ g[1][1] < poly.xmax
    /\ poly.ymin < g[1][2] /\ g[1][2] < poly.ymax

Matches(zoning, g) == SelectSeq(zoning, LAMBDA poly : within(g, poly))

\* Variant of the join without the removal of duplicated indices: a point in
\* several polygons gives several rows.
RECURSIVE sjoin_no_dedup(_, _)
sjoin_no_dedup(rows, zoning) ==
    IF rows = <<>> THEN <<>>
    ELSE LET m == SelectSeq(zoning, LAMBDA poly :
                      /\ Head(rows).geometry # <<>>
                      /\ poly.xmin < Head(rows).geometry[1][1]
                      /\ Head(rows).geometry[1][1] < poly.xmax
                      /\ poly.ymin < Head(rows).geometry[1][2]
                      /\ Head(rows).geometry[1][2] < poly.ymax)
         IN  (IF m = <<>>
              THEN << [Zoning_District |-> <<>>, Zoning_Subdistrict |-> <<>>] @@ Head(rows) >>
              ELSE [k \in DOMAIN m |->
                      [Zoning_District    |-> m[k].Zoning_District,
                       Zoning_Subdistrict |-> m[k].Zoning_Subdistrict] @@ Head(rows)])
             \o sjoin_no_dedup(Tail(rows), zoning)

\* gpd.sjoin(how='left') gives one row per matching polygon, or one row with
\* empty zoning fields; index.duplicated(keep='first') keeps the first of them.
sjoin_first(row, zoning) ==
    LET m == Matches(zoning, row.geometry)
    IN  IF m = <<>>
        THEN [Zoning_District |-> NA, Zoning_Subdistrict |-> NA] @@ row
        ELSE [Zoning_District    |-> m[1].Zoning_District,
              Zoning_Subdistrict |-> m[1].Zoning_Subdistrict] @@ row

sjoin(rows, zoning) == [i \in DOMAIN rows |-> sjoin_first(rows[i], zoning)]

\* the except branch: both zoning columns are set to None.
zoning_skipped(rows) ==
    [i \in DOMAIN rows |->
        [Zoning_District |-> NA, Zoning_Subdistrict |-> NA] @@ rows[i]]

SpatialJoin ==
    /\ pc = "loaded"
    /\ gdf' = [gdf EXCEPT !.rows = sjoin(gdf.rows, ZoningFile)]
    /\ pc' = "joined"
    /\ UNCHANGED <<input, initial_ma_count, all_buildings_df, df, result>>

SpatialJoinFailed ==
    /\ pc = "loaded"
    /\ gdf' = [gdf EXCEPT !.rows = zoning_skipped(gdf.rows)]
    /\ pc' = "joined"
    /\ UNCHANGED <<input, initial_ma_count, all_buildings_df, df, result>>

-----------------------------------------------------------------------------
(* 4./5. Coordinates, city filter, derived fields, the demolished view.    *)

DropField(r, f) == [g \in DOMAIN r \ {f} |-> r[g]]

\* gdf.geometry.x / .y, then the geometry column is dropped.
extract_coordinates(r) ==
    DropField(
        [LONGITUDE |-> IF isna(r.geometry) THEN NA ELSE Some(r.geometry[1][1]),
         LATITUDE  |-> IF isna(r.geometry) THEN NA ELSE Some(r.geometry[1][2])] @@ r,
        "geometry")

\* df['PROP_CITY'].astype(str).str.upper().isin(boston_cities)
in_boston(r) == upper(str(r.PROP_CITY)) \in boston_cities

\* year_built made numeric, current_age = CURRENT_YEAR - year_built.
with_current_age(r) ==
    LET yb == to_numeric(r.year_built)
    IN  [year_built  |-> yb,
         current_age |-> Minus(Some(CURRENT_YEAR), yb)] @@ r

\* DEMOLITION_DATE parsed, demolition_year, lifespan.
with_lifespan(r) ==
    LET dy == to_datetime_year(r.DEMOLITION_DATE)
    IN  [DEMOLITION_DATE |-> dy,
         demolition_year |-> dy,
         lifespan        |-> Minus(dy, r.year_built)] @@ r

\* Variant of the filtering step that only drops undefined lifespans
\* (df.dropna(subset=['lifespan'])): the ceiling is forgotten.
lifespan_filter_dropna(r) == notna(r.lifespan)

\* the filtering step: df = df[df['lifespan'] < 500]
lifespan_filter(r) == LtNum(r.lifespan, LifespanCeiling)

\* a missing material / foundation column is filled with 'Unknown'.
material_desc(r, columns) ==
    IF "material_type_desc" \notin columns THEN Some(Unknown) ELSE r.material_type_desc

foundation_desc(r, columns) ==
    IF "foundation_type" \notin columns THEN Some("Unknown") ELSE r.foundation_type

\* a missing 'Est GFA sqmeters' column is 0; to_numeric(...).fillna(0).
gfa_numeric(r, columns) ==
    IF "Est_GFA" \notin columns THEN Some(0) ELSE fillna(to_numeric(r.Est_GFA), 0)

\* material_group = material_type_desc.fillna('Unknown').str.strip()
material_group(r, columns) == strip(fillna(material_desc(r, columns), Unknown)[1])

simple_status_check(val) ==
    IF isna(val) THEN "Open"
    ELSE IF upper(strip(val[1])) \in { <<"C","L","O","S","E","D">>, <<"C","L","O","S","E">> }
         THEN "Close"
         ELSE "Open"

\* status_norm: per value when the column exists, 'Close' for every row otherwise.
status_norm(r, columns) ==
    IF "DEMOLITION_STATUS" \in columns
    THEN simple_status_check(r.DEMOLITION_STATUS)
    ELSE "Close"

\* the snapshot of all buildings with its later column fixes.
all_buildings_row(r, columns) ==
    [material_type_desc |-> material_desc(r, columns),
     Est_GFA            |-> gfa_numeric(r, columns),
     material_group     |-> material_group(r, columns)] @@ r

\* a row of the demolished view with its later column fixes.
demolished_row(r, columns) ==
    [material_type_desc |-> material_desc(r, columns),
     foundation_type    |-> foundation_desc(r, columns),
     Est_GFA            |-> gfa_numeric(r, columns),
     material_group     |-> material_group(r, columns),
     status_norm        |-> status_norm(r, columns)] @@ r

\* the Greater Boston rows with year_built and current_age.
boston_rows(t) ==
    LET located == [i \in DOMAIN t.rows |-> extract_coordinates(t.rows[i])]
        kept    == SelectSeq(located, in_boston)
    IN  [i \in DOMAIN kept |-> with_current_age(kept[i])]

snapshot_all_buildings(t) ==
    LET rows == boston_rows(t)
    IN  [rows    |-> [i \in DOMAIN rows |-> all_buildings_row(rows[i], t.columns)],
         columns |-> t.columns]

demolished_view(t) ==
    LET rows     == boston_rows(t)
        measured == [i \in DOMAIN rows |-> with_lifespan(rows[i])]
        kept     == SelectSeq(measured, lifespan_filter)
    IN  [rows    |-> [i \in DOMAIN kept |-> demolished_row(kept[i], t.columns)],
         columns |-> t.columns]

Clean ==
    /\ pc = "joined"
    /\ initial_ma_count' = Len(gdf.rows)
    /\ all_buildings_df' = snapshot_all_buildings(gdf)
    /\ df' = demolished_view(gdf)
    /\ pc' = "cleaned"
    /\ UNCHANGED <<input, gdf, result>>

-----------------------------------------------------------------------------
(* Generation of the report: helpers.                                      *)

is_type(r, dtype) == r.DEMOLITION_TYPE = Some(dtype)

of_type(rows, dtype) == SelectSeq(rows, LAMBDA r : is_type(r, dtype))

\* float(series.mean()) if the subset is not empty, else 0.
mean_or_zero(s) == IF s = <<>> THEN <<0, 1>> ELSE mean(s)

get_counts(d) ==
    [open  |-> Len(SelectSeq(d, LAMBDA r : r.status_norm = "Open")),
     close |-> Len(SelectSeq(d, LAMBDA r : r.status_norm = "Close"))]

\* the ascending sequence of a finite set of integers: sorted(...).
RECURSIVE sorted(_)
sorted(S) == IF S = {} THEN <<>> ELSE <<Min(S)>> \o sorted(S \ {Min(S)})

\* f"{b}-{b + width}"
range_label(b, width) == <<b, "-", b + width>>

\* s, e = map(int, rng.split('-'))
parse_range(rng) == <<rng[1], rng[3]>>

in_bucket(c, lo, hi) == GeNum(c, lo) /\ LtNum(c, hi)

\* Variant of make_hist whose bins stop at the largest value:
\* range(0, int(series.max()), width).
make_hist_short(series, width) ==
    LET kept == SelectSeq(series, LAMBDA c : c # <<>> /\ c[1] >= 0 /\ c[1] < LifespanCeiling)
    IN  IF series = <<>> \/ kept = <<>> THEN <<>>
        ELSE LET bins == range(0, Max({kept[i][1] : i \in DOMAIN kept}), width)
             IN  [k \in DOMAIN bins |->
                    [range |-> <<bins[k], "-", bins[k] + width>>,
                     count |-> Len(SelectSeq(kept, LAMBDA c :
                                   c[1] >= bins[k] /\ c[1] < bins[k] + width))]]

make_hist(series, width) ==
    LET kept == SelectSeq(series, LAMBDA c : in_bucket(c, 0, LifespanCeiling))
    IN  IF series = <<>> \/ kept = <<>> THEN <<>>
        ELSE LET bins == range(0, Max(Range(Values(kept))) + width, width)
             IN  [k \in DOMAIN bins |->
                    [range |-> range_label(bins[k], width),
                     count |-> Len(SelectSeq(kept,
                                   LAMBDA c : in_bucket(c, bins[k], bins[k] + width)))]]

\* the label of a bucket: f"{i}-{i + bin_size}" in a district heatmap,
\* f"{i}-{i + bin_size} years" or f"{i}+ years" in the material heatmaps.
heat_label(i, bin_size, years) ==
    IF ~years THEN range_label(i, bin_size)
    ELSE IF i < OverflowFrom THEN <<i, "-", i + bin_size, "years">>
         ELSE <<i, "+ years">>

\* the rows of one bucket: lifespan >= i and lifespan < i + bin_size.
bucket_rows(mat_rows, i, bin_size) ==
    SelectSeq(mat_rows, LAMBDA r : in_bucket(r.lifespan, i, i + bin_size))

gfa_sum(rows) == SumSeq(Values(Column(rows, "Est_GFA")))

\* the entry of a bucket: int(count) in bins_c, int(sum of the floor areas) in bins_g.
bucket_entry(subset, weight) == IF weight = "gfa" THEN gfa_sum(subset) ELSE Len(subset)

\* bins_c or bins_g of one material: the non-empty buckets only.
sparse_bins(mat_rows, bin_size, years, weight) ==
    LET subset == [i \in Range(range(0, HeatmapCeiling, bin_size)) |->
                      bucket_rows(mat_rows, i, bin_size)]
        starts == {i \in DOMAIN subset : Len(subset[i]) > 0}
    IN  [l \in {heat_label(i, bin_size, years) : i \in starts} |->
            bucket_entry(subset[CHOOSE i \in starts : heat_label(i, bin_size, years) = l],
                         weight)]

of_material(rows, mat) == SelectSeq(rows, LAMBDA r : r.material_group = mat)

\* one heatmap: material -> sparse buckets; a material without bucket is absent.
heatmap(rows, bin_size, years, weight) ==
    LET bins == [m \in Range(Column(rows, "material_group")) |->
                    sparse_bins(of_material(rows, m), bin_size, years, weight)]
    IN  [m \in {x \in DOMAIN bins : bins[x] # <<>>} |-> bins[m]]

\* make_district_heatmap (the 15 most frequent materials; labels without unit).
make_district_heatmap(d_rows, bin_size) ==
    [count |-> heatmap(d_rows, bin_size, FALSE, "count"),
     gfa   |-> heatmap(d_rows, bin_size, FALSE, "gfa")]

type_rows(rows, demo_type) ==
    IF demo_type = "all" THEN rows ELSE of_type(rows, demo_type)

\* material_lifespan_demo (weight "count") and material_lifespan_demo_gfa ("gfa").
material_lifespan(rows, weight) ==
    [demo_type \in Range(demo_types) \cup {"all"} |->
        [bin_size \in Range(bin_sizes) |->
            heatmap(type_rows(rows, demo_type), bin_size, TRUE, weight)]]

\* a point of a map.
point(r) ==
    [lat |-> r.LATITUDE[1], lng |-> r.LONGITUDE[1], lifespan |-> r.lifespan[1],
     status |-> r.status_norm, year_built |-> r.year_built[1],
     material |-> r.material_group, foundation |-> r.foundation_type]

map_point(r) == [type |-> r.DEMOLITION_TYPE] @@ point(r)

\* the list of the points of the rows.
points(rows) == [i \in DOMAIN rows |-> point(rows[i])]

has_latitude(r) == notna(r.LATITUDE)

in_district(r, dist) == r.Zoning_District = Some(dist)

\* all_buildings_df['Zoning_District'].dropna().unique()
all_districts(all_rows) == Values(unique(dropna(Column(all_rows, "Zoning_District"))))

\* the rows whose points go to positive_raze_points.
raze_point_rows(r_df) == SelectSeq(r_df, has_latitude)

district_stats(rows, all_rows, dist) ==
    LET d_demo_df == SelectSeq(rows, LAMBDA r : in_district(r, dist))
        r_df      == of_type(d_demo_df, "RAZE")
        r_pos     == SelectSeq(r_df, LAMBDA r : GtNum(r.lifespan, 0))
        d_all_df  == SelectSeq(all_rows, LAMBDA r : in_district(r, dist))
    IN  [count_raze |-> Len(r_df),
         avg_raze_lifespan |-> mean_or_zero(Column(r_pos, "lifespan")),
         demolished_age_distribution_10yr |-> make_hist(Column(r_df, "lifespan"), 10),
         heatmap_data |-> make_district_heatmap(r_df, 20),
         positive_raze_points |-> points(raze_point_rows(r_df)),
         count_total |-> Len(d_all_df),
         avg_current_age |-> mean_or_zero(Column(d_all_df, "current_age")),
         current_age_distribution_10yr |-> make_hist(Column(d_all_df, "current_age"), 10)]

\* Variant that takes the districts from the demolished view instead of the
\* full inventory.
zoning_district_stats_demolished(rows, all_rows) ==
    [dist \in Range(all_districts(rows)) |-> district_stats(rows, all_rows, dist)]

zoning_district_stats(rows, all_rows) ==
    [dist \in Range(all_districts(all_rows)) |-> district_stats(rows, all_rows, dist)]

zoning_subdistrict_stats(rows) ==
    LET subs == Range(Values(dropna(Column(rows, "Zoning_Subdistrict"))))
        s_df(sub) == SelectSeq(rows, LAMBDA r : r.Zoning_Subdistrict = Some(sub)
                                             /\ is_type(r, "RAZE"))
    IN  [sub \in {x \in subs : Len(s_df(x)) > 0} |->
            [avg_raze_lifespan |-> mean(Column(s_df(sub), "lifespan"))]]

-----------------------------------------------------------------------------
(* Generation of the report: the sections.                                 *)

material_lifespan_demo_avg(rows) ==
    [dtype \in Range(demo_types) |->
        mean_or_zero(Column(SelectSeq(of_type(rows, dtype),
                                   LAMBDA r : GtNum(r.lifespan, 0)), "lifespan"))]

summary_stats(rows, all_rows) ==
    LET raze_df == of_type(rows, "RAZE")
        r_pos   == SelectSeq(raze_df, LAMBDA r : GtNum(r.lifespan, 0))
        r_zero  == SelectSeq(raze_df, LAMBDA r : EqNum(r.lifespan, 0))
        r_neg   == SelectSeq(raze_df, LAMBDA r : LtNum(r.lifespan, 0))
        pos_lifespan_df == SelectSeq(rows, LAMBDA r : GtNum(r.lifespan, 0))
    IN  [total_demolitions |-> Len(rows),
         average_lifespan |-> mean_or_zero(Column(pos_lifespan_df, "lifespan")),
         raze_count |-> Len(raze_df),
         extdem_count |-> Len(SelectSeq(rows, LAMBDA r : is_type(r, "EXTDEM"))),
         intdem_count |-> Len(SelectSeq(rows, LAMBDA r : is_type(r, "INTDEM"))),
         negative_raze_count |-> get_counts(r_neg).close,
         zero_raze_count |-> get_counts(r_zero).close,
         avg_current_building_age |-> mean_or_zero(Column(all_rows, "current_age")),
         raze_status_by_lifespan |->
            [positive |-> get_counts(r_pos), zero |-> get_counts(r_zero),
             negative |-> get_counts(r_neg), total |-> get_counts(raze_df)]]

map_points(rows) ==
    LET located == SelectSeq(rows, has_latitude)
    IN  [i \in DOMAIN located |-> map_point(located[i])]

type_counts(rows) ==
    [RAZE   |-> Len(SelectSeq(rows, LAMBDA r : is_type(r, "RAZE"))),
     EXTDEM |-> Len(SelectSeq(rows, LAMBDA r : is_type(r, "EXTDEM"))),
     INTDEM |-> Len(SelectSeq(rows, LAMBDA r : is_type(r, "INTDEM")))]

yearly_stacked(rows) ==
    LET years == sorted(Range(Values(Column(rows, "demolition_year"))))
    IN  [k \in DOMAIN years |->
            [year |-> years[k], demolished_and_replaced |-> 0]
            @@ type_counts(SelectSeq(rows, LAMBDA r : r.demolition_year = Some(years[k])))]

lifespan_distribution(rows) ==
    LET dist_10yr == make_hist(Column(rows, "lifespan"), 10)
    IN  [k \in DOMAIN dist_10yr |->
            LET se == parse_range(dist_10yr[k].range)
            IN  [range |-> dist_10yr[k].range]
                @@ type_counts(SelectSeq(rows, LAMBDA r : in_bucket(r.lifespan, se[1], se[2])))]

\* int(series.min()) and int(series.max()) raise on an empty or all-NaN series.
min_max_raises(series) == Values(series) = <<>>

year_span(series) ==
    <<Min(Range(Values(series))), "-", Max(Range(Values(series)))>>

metadata_raises(rows, all_rows) ==
    \/ min_max_raises(Column(rows, "demolition_year"))
    \/ min_max_raises(Column(all_rows, "year_built"))

metadata(rows, all_rows, ma_count) ==
    [year_range |-> year_span(Column(rows, "demolition_year")),
     generated_date |-> "now",
     total_ma_buildings |-> ma_count,
     total_boston_buildings |-> Len(all_rows),
     total_boston_demolitions |-> Len(rows),
     year_built_range |-> year_span(Column(all_rows, "year_built"))]

\* a stable sort by decreasing count (list.sort(reverse=True), value_counts).
RECURSIVE insert_by_count(_, _)
insert_by_count(s, x) ==
    IF s = <<>> THEN <<x>>
    ELSE IF Head(s).count >= x.count THEN <<Head(s)>> \o insert_by_count(Tail(s), x)
         ELSE <<x>> \o s

RECURSIVE sort_by_count(_)
sort_by_count(s) ==
    IF s = <<>> THEN <<>>
    ELSE insert_by_count(sort_by_count(SubSeq(s, 1, Len(s) - 1)), s[Len(s)])

head(s, n) == SubSeq(s, 1, IF Len(s) < n THEN Len(s) ELSE n)

city_stats(rows) ==
    LET cities == unique(Column(rows, "PROP_CITY"))
        city_df(c) == SelectSeq(rows, LAMBDA r : r.PROP_CITY = c)
    IN  head(sort_by_count(
            [k \in DOMAIN cities |->
                [city |-> cities[k][1],
                 count |-> Len(city_df(cities[k])),
                 avg_lifespan |-> mean(Column(city_df(cities[k]), "lifespan"))]]), 10)

material_stats(rows) ==
    LET mats == unique(Column(rows, "material_group"))
    IN  sort_by_count(
            [k \in DOMAIN mats |->
                [material |-> mats[k],
                 count |-> Len(of_material(rows, mats[k])),
                 avg_lifespan |-> mean(Column(of_material(rows, mats[k]), "lifespan")),
                 demolition_breakdown |-> type_counts(of_material(rows, mats[k]))]])

material_lifespan_raw_by_demo(rows) ==
    LET top == Range(Column(head(material_stats(rows), 20), "material"))
    IN  [demo \in Range(demo_types) |->
            [m \in {x \in top : of_material(of_type(rows, demo), x) # <<>>} |->
                Values(Column(of_material(of_type(rows, demo), m), "lifespan"))]]

\* the report, section by section, in the order of the code.
report(rows, all_rows, ma_count) ==
    LET summary == summary_stats(rows, all_rows)
        yearly_data == yearly_stacked(rows)
        final_dist == lifespan_distribution(rows)
    IN  [kind |-> "report",
         material_lifespan_demo_avg |-> material_lifespan_demo_avg(rows),
         summary_stats |-> summary,
         summary_stats_closed |-> summary,
         map_points |-> map_points(rows),
         zoning_district_stats |-> zoning_district_stats(rows, all_rows),
         zoning_district_names |-> Range(all_districts(all_rows)),
         zoning_subdistrict_stats |-> zoning_subdistrict_stats(rows),
         material_lifespan_demo |-> material_lifespan(rows, "count"),
         material_lifespan_demo_gfa |-> material_lifespan(rows, "gfa"),
         yearly_stacked |-> yearly_data,
         yearly_stacked_closed |-> yearly_data,
         lifespan_distribution |-> final_dist,
         lifespan_distribution_closed |-> final_dist,
         metadata |-> metadata(rows, all_rows, ma_count),
         city_stats |-> city_stats(rows),
         material_stats |-> material_stats(rows),
         material_lifespan_raw_by_demo |-> material_lifespan_raw_by_demo(rows)]

\* every section is computed and the report is returned.
Generate ==
    /\ pc = "cleaned"
    /\ ~metadata_raises(df.rows, all_buildings_df.rows)
    /\ result' = report(df.rows, all_buildings_df.rows, initial_ma_count)
    /\ pc' = "returned"
    /\ UNCHANGED <<input, gdf, initial_ma_count, all_buildings_df, df>>

\* int(nan) in the metadata section raises ValueError: no report is returned.
GenerateRaises ==
    /\ pc = "cleaned"
    /\ metadata_raises(df.rows, all_buildings_df.rows)
    /\ pc' = "raised"
    /\ UNCHANGED <<input, gdf, initial_ma_count, all_buildings_df, df, result>>

Next ==
    \/ LoadData
    \/ LoadError
    \/ SpatialJoin
    \/ SpatialJoinFailed
    \/ Clean
    \/ Generate
    \/ GenerateRaises

Spec == Init /\ [][Next]_vars

\* the same run on the tables of InventoryRecords with every column present.
SpecInventory == InitInventory /\ [][Next]_vars

\* make_hist applied to the series and width of the input.
MakeHist ==
    /\ pc = "hist"
    /\ result' = [kind |-> "hist", buckets |-> make_hist(input.series, input.width)]
    /\ pc' = "hist_done"
    /\ UNCHANGED <<input, gdf, initial_ma_count, all_buildings_df, df>>

NextHist == MakeHist

SpecHist == InitHist /\ [][NextHist]_vars

-----------------------------------------------------------------------------
(* Properties.                                                             *)

Cleaned == pc \in {"cleaned", "returned", "raised"}

Returned == pc = "returned"

\* the sum of the values of a function with a finite domain.
RECURSIVE SumValues(_)
SumValues(f) ==
    IF DOMAIN f = {} THEN 0
    ELSE LET k == CHOOSE x \in DOMAIN f : TRUE
         IN  f[k] + SumValues([x \in DOMAIN f \ {k} |-> f[x]])

\* the rows of the demolished view of one partition and one material.
PartitionRows(t, m) ==
    {i \in DOMAIN df.rows :
        /\ df.rows[i].material_group = m
        /\ (t = "all" \/ df.rows[i].DEMOLITION_TYPE = <<t>>)}

\* C1, as amended: every record of the demolished view has a defined lifespan
\* below 500, and every record of AllBuildings whose demolition year minus
\* year built is defined and below 500 is retained, negative lifespans included.
C1_LifespanBelowCeiling ==
    Cleaned =>
        /\ \A i \in DOMAIN df.rows :
              df.rows[i].lifespan # <<>> /\ df.rows[i].lifespan[1] < 500
        /\ Len(df.rows) =
              Cardinality({i \in DOMAIN all_buildings_df.rows :
                  LET r == all_buildings_df.rows[i]
                  IN  /\ Len(r.DEMOLITION_DATE) = 2
                      /\ r.DEMOLITION_DATE[1] = "date"
                      /\ r.year_built # <<>>
                      /\ r.DEMOLITION_DATE[2] - r.year_built[1] < 500})

\* C1 as stated: every record of the demolished view has 0 <= lifespan < 500.
C1_Original ==
    Cleaned =>
        \A i \in DOMAIN df.rows :
            /\ df.rows[i].lifespan # <<>>
            /\ 0 <= df.rows[i].lifespan[1]
            /\ df.rows[i].lifespan[1] < 500

\* a report over a demolished view that holds a negative lifespan and has
\* excluded another record of the inventory.
C1_Witness ==
    /\ Returned
    /\ \E i \in DOMAIN df.rows : df.rows[i].lifespan[1] < 0
    /\ Len(df.rows) < Len(all_buildings_df.rows)

\* C2 as stated: in material_lifespan_demo no bucket has count 0 and the bucket
\* counts of a material sum to its records in that partition of the view.
C2_Original ==
    Returned =>
        \A t \in DOMAIN result.material_lifespan_demo :
            \A b \in DOMAIN result.material_lifespan_demo[t] :
                \A m \in DOMAIN result.material_lifespan_demo[t][b] :
                    LET bins_c == result.material_lifespan_demo[t][b][m]
                    IN  /\ \A l \in DOMAIN bins_c : bins_c[l] # 0
                        /\ SumValues(bins_c) = Cardinality(PartitionRows(t, m))

\* C3 as stated: status_norm is Open or Close, and Close exactly when the raw
\* status, stripped and upper-cased, is CLOSED or CLOSE; an absent status
\* (of the record or of the whole table) gives Open.
C3_Original ==
    Cleaned =>
        \A i \in DOMAIN df.rows :
            LET r == df.rows[i]
                raw == IF "DEMOLITION_STATUS" \in df.columns
                       THEN r.DEMOLITION_STATUS ELSE <<>>
            IN  /\ r.status_norm \in {"Open", "Close"}
                /\ r.status_norm = "Close" <=>
                      /\ raw # <<>>
                      /\ upper(strip(raw[1])) \in
                            { <<"C","L","O","S","E","D">>, <<"C","L","O","S","E">> }

InDomain(c) == c # <<>> /\ 0 <= c[1] /\ c[1] < 500

\* C4: the bucket counts of make_hist sum to the number of values v with
\* 0 <= v < 500; every such value lies in exactly one bucket [b, b + width)
\* and a bucket counts exactly the in-domain values of its range.
C4_HistCountsInDomain ==
    pc = "hist_done" =>
        LET s == input.series
            b == result.buckets
        IN  /\ SumSeq([k \in DOMAIN b |-> b[k].count])
                  = Cardinality({i \in DOMAIN s : InDomain(s[i])})
            /\ \A i \in DOMAIN s :
                  InDomain(s[i]) =>
                      Cardinality({k \in DOMAIN b :
                          b[k].range[1] <= s[i][1] /\ s[i][1] < b[k].range[3]}) = 1
            /\ \A k \in DOMAIN b :
                  /\ b[k].range[3] = b[k].range[1] + input.width
                  /\ b[k].count = Cardinality({i \in DOMAIN s :
                        /\ InDomain(s[i])
                        /\ b[k].range[1] <= s[i][1] /\ s[i][1] < b[k].range[3]})

\* a histogram of several buckets over a series with values inside and
\* outside [0, 500).
C4_Witness ==
    /\ pc = "hist_done"
    /\ Len(result.buckets) >= 2
    /\ \E i, j, k \in DOMAIN input.series :
          /\ InDomain(input.series[i]) /\ InDomain(input.series[j])
          /\ input.series[j][1] >= input.series[i][1] + input.width
          /\ input.series[k] # <<>> /\ ~InDomain(input.series[k])

\* the number of input rows whose point lies inside some zoning polygon.
RowsInsidePolygon ==
    Cardinality({i \in DOMAIN input.rows :
        /\ input.rows[i].geometry # <<>>
        /\ \E k \in DOMAIN ZoningFile :
              /\ ZoningFile[k].xmin < input.rows[i].geometry[1][1]
              /\ input.rows[i].geometry[1][1] < ZoningFile[k].xmax
              /\ ZoningFile[k].ymin < input.rows[i].geometry[1][2]
              /\ input.rows[i].geometry[1][2] < ZoningFile[k].ymax})

Unassigned ==
    {i \in DOMAIN all_buildings_df.rows : all_buildings_df.rows[i].Zoning_District = <<>>}

DistrictTotals ==
    SumValues([d \in DOMAIN result.zoning_district_stats |->
                  result.zoning_district_stats[d].count_total])

\* C5: count_total summed over the districts plus the records without district
\* is the AllBuildings count (metadata.total_boston_buildings); records whose
\* point is in no polygon are counted in no district.
C5_DistrictTotals ==
    Returned =>
        /\ DistrictTotals + Cardinality(Unassigned) = Len(all_buildings_df.rows)
        /\ result.metadata.total_boston_buildings = Len(all_buildings_df.rows)
        /\ DistrictTotals <= RowsInsidePolygon

\* a report with a district entry and a record left without district.
C5_Witness ==
    /\ Returned
    /\ DOMAIN result.zoning_district_stats # {}
    /\ Unassigned # {}
    /\ DistrictTotals >= 1

\* the labels of a sparse bucket map: "lo-hi years" or "lo+ years".
IsRangeLabel(l) == Len(l) = 4 /\ l[2] = "-" /\ l[4] = "years"

OverflowLabel == <<150, "+ years">>

\* C6 as stated: in both material heatmaps every record with lifespan at or
\* above 150 is counted under the one label "150+ years", the buckets below 150
\* carry range labels, and no other "+" label appears.
C6_Original ==
    Returned =>
        \A t \in DOMAIN result.material_lifespan_demo :
            \A b \in DOMAIN result.material_lifespan_demo[t] :
                /\ \A m \in DOMAIN result.material_lifespan_demo[t][b] :
                      LET bins_c == result.material_lifespan_demo[t][b][m]
                          over == IF OverflowLabel \in DOMAIN bins_c
                                  THEN bins_c[OverflowLabel] ELSE 0
                      IN  /\ \A l \in DOMAIN bins_c :
                                \/ l = OverflowLabel
                                \/ IsRangeLabel(l) /\ l[1] < 150
                          /\ over = Cardinality({i \in PartitionRows(t, m) :
                                        df.rows[i].lifespan[1] >= 150})
                /\ \A m \in DOMAIN result.material_lifespan_demo_gfa[t][b] :
                      \A l \in DOMAIN result.material_lifespan_demo_gfa[t][b][m] :
                          \/ l = OverflowLabel
                          \/ IsRangeLabel(l) /\ l[1] < 150

\* C7 as stated: every record of the demolished view has a demolition type
\* among RAZE, EXTDEM, INTDEM, and total_demolitions is the sum of the three
\* per-type counts.
C7_Original ==
    Returned =>
        /\ \A i \in DOMAIN df.rows :
              df.rows[i].DEMOLITION_TYPE \in {<<"RAZE">>, <<"EXTDEM">>, <<"INTDEM">>}
        /\ result.summary_stats.total_demolitions =
              result.summary_stats.raze_count
              + result.summary_stats.extdem_count
              + result.summary_stats.intdem_count

\* the zoning polygons could not be loaded or joined.
ZoningSkipped ==
    \A i \in DOMAIN gdf.rows :
        gdf.rows[i].Zoning_District = <<>> /\ gdf.rows[i].Zoning_Subdistrict = <<>>

\* the table the run works on when the join of the same records succeeds.
JoinedTable == [rows |-> sjoin(input.rows, ZoningFile), columns |-> input.columns]

JoinedRaises ==
    metadata_raises(demolished_view(JoinedTable).rows,
                    snapshot_all_buildings(JoinedTable).rows)

JoinedReport ==
    report(demolished_view(JoinedTable).rows,
           snapshot_all_buildings(JoinedTable).rows,
           Len(JoinedTable.rows))

\* a report with its three district sections emptied.
WithoutDistricts(r) ==
    [r EXCEPT !.zoning_district_stats = <<>>,
              !.zoning_district_names = {},
              !.zoning_subdistrict_stats = <<>>]

NonDistrictSections ==
    {"summary_stats", "summary_stats_closed", "material_lifespan_demo_avg",
     "map_points", "material_lifespan_demo", "material_lifespan_demo_gfa",
     "yearly_stacked", "yearly_stacked_closed", "lifespan_distribution",
     "lifespan_distribution_closed", "material_stats", "city_stats",
     "material_lifespan_raw_by_demo", "metadata"}

\* C8: when the zoning polygons cannot be loaded or joined the run goes on as
\* with a successful join: every record is unassigned, the district sections
\* are empty, and every other section equals that of the run with the join.
C8_ZoningSkippedDegrades ==
    (Cleaned /\ ZoningSkipped) =>
        /\ pc = "raised" => JoinedRaises
        /\ Returned =>
              /\ ~JoinedRaises
              /\ \A i \in DOMAIN all_buildings_df.rows :
                    /\ all_buildings_df.rows[i].Zoning_District = <<>>
                    /\ all_buildings_df.rows[i].Zoning_Subdistrict = <<>>
              /\ result.zoning_district_stats = <<>>
              /\ result.zoning_district_names = {}
              /\ result.zoning_subdistrict_stats = <<>>
              /\ WithoutDistricts(result) = WithoutDistricts(JoinedReport)

\* a report of a run without zoning over records that lie inside polygons,
\* one of them inside two.
C8_Witness ==
    /\ Returned
    /\ ZoningSkipped
    /\ Len(df.rows) >= 2
    /\ \E i \in DOMAIN input.rows : input.rows[i].geometry = <<<<3, 1>>>>
    /\ RowsInsidePolygon >= 2

ReportSections ==
    NonDistrictSections
    \cup {"zoning_district_stats", "zoning_district_names", "zoning_subdistrict_stats"}

\* C9 as stated: once the building data is loaded the run ends by returning a
\* report with every top-level key; it never fails, whatever the records hold.
C9_Original ==
    /\ pc # "raised"
    /\ Returned => ReportSections \subseteq DOMAIN result

\* C10 as stated: positive_raze_points of a district holds exactly the RAZE
\* records of the demolished view in the district with lifespan > 0 and a
\* known latitude.
C10_Original ==
    Returned =>
        \A d \in DOMAIN result.zoning_district_stats :
            result.zoning_district_stats[d].positive_raze_points =
                points(SelectSeq(df.rows, LAMBDA r :
                        /\ r.Zoning_District = <<d>>
                        /\ r.DEMOLITION_TYPE = <<"RAZE">>
                        /\ r.lifespan[1] > 0
                        /\ r.LATITUDE # <<>>))

====
